---- MODULE Spec2Model ----
(***************************************************************************)
(* A model of scripts/download.py: the page mirror that fetches one page,  *)
(* rewrites every remote reference to a locally cached copy and writes the *)
(* rewritten markup.                                                       *)
(*                                                                         *)
(* Strings are sequences of tokens; a token is a literal slice of the      *)
(* Python string and the string is the concatenation of its tokens.  The   *)
(* tokenisation is canonical: a dot occurs only as the first character of  *)
(* a token, "//" is one token and stands only where an authority starts, a *)
(* scheme ("https:", "http:", "data:") is one token and stands only first, *)
(* a percent escape is one token.  The alphabet has no ";" outside data:   *)
(* URLs and no "." or ".." path segment, so urljoin's parameter and        *)
(* dot-segment handling are not exercised.                                 *)
(***************************************************************************)
EXTENDS Naturals, Sequences, FiniteSets, TLC

----------------------------------------------------------------------------
(* Token-string helpers. *)

RECURSIVE Join(_)
Join(s) == IF s = <<>> THEN "" ELSE Head(s) \o Join(Tail(s))

StartsWith(s, p) == Len(s) >= Len(p) /\ SubSeq(s, 1, Len(p)) = p

\* Index of the first token of s that is in set T, 0 when there is none.
FirstIn(s, T) ==
    IF \E i \in 1..Len(s) : s[i] \in T
    THEN CHOOSE i \in 1..Len(s) : s[i] \in T /\ \A j \in 1..(i - 1) : s[j] \notin T
    ELSE 0

\* Index of the last token of s that is in set T, 0 when there is none.
LastIn(s, T) ==
    IF \E i \in 1..Len(s) : s[i] \in T
    THEN CHOOSE i \in 1..Len(s) : s[i] \in T /\ \A j \in (i + 1)..Len(s) : s[j] \notin T
    ELSE 0

Whitespace == {" ", "\n"}

\* str.strip(): leading and trailing whitespace removed.
RECURSIVE Strip(_)
Strip(s) ==
    IF s = <<>> THEN s
    ELSE IF Head(s) \in Whitespace THEN Strip(Tail(s))
    ELSE IF s[Len(s)] \in Whitespace THEN Strip(SubSeq(s, 1, Len(s) - 1))
    ELSE s

\* str.split(","): the pieces between the commas, empty pieces kept.
RECURSIVE SplitComma(_)
SplitComma(s) ==
    LET i == FirstIn(s, {","})
    IN  IF i = 0 THEN <<s>>
        ELSE <<SubSeq(s, 1, i - 1)>> \o SplitComma(SubSeq(s, i + 1, Len(s)))

\* A slip: the pieces joined with "," alone.
RECURSIVE JoinCommaNoSpace(_)
JoinCommaNoSpace(ps) ==
    IF ps = <<>> THEN <<>>
    ELSE IF Len(ps) = 1 THEN ps[1]
    ELSE ps[1] \o <<",">> \o JoinCommaNoSpace(Tail(ps))

\* ", ".join(pieces)
RECURSIVE JoinComma(_)
JoinComma(ps) ==
    IF ps = <<>> THEN <<>>
    ELSE IF Len(ps) = 1 THEN ps[1]
    ELSE ps[1] \o <<",", " ">> \o JoinComma(Tail(ps))

----------------------------------------------------------------------------
(* urllib.parse, on token strings. *)

\* unquote(): every percent escape replaced by the character it encodes.
UnquoteToken(t) ==
    CASE t = "%20" -> " "
      [] t = "%3F" -> "?"
      [] t = "%2C" -> ","
      [] t = "%26" -> "&"
      [] OTHER -> t

Unquote(s) == [i \in 1..Len(s) |-> UnquoteToken(s[i])]

SchemeTokens == {"https:", "http:"}

\* The part of s before, after, and from the first token in T on; all of s,
\* nothing and nothing when no token of s is in T.
BeforeAt(s, i) == IF i = 0 THEN s ELSE SubSeq(s, 1, i - 1)
AfterAt(s, i)  == IF i = 0 THEN <<>> ELSE SubSeq(s, i + 1, Len(s))
FromAt(s, i)   == IF i = 0 THEN <<>> ELSE SubSeq(s, i, Len(s))
BeforeFirst(s, T) == BeforeAt(s, FirstIn(s, T))
AfterFirst(s, T)  == AfterAt(s, FirstIn(s, T))
FromFirst(s, T)   == FromAt(s, FirstIn(s, T))

\* urlsplit(), last step: the query is what follows the first "?" of the
\* text before the fragment.
SplitQuery(scheme, hasNet, netloc, r, frag) ==
    [scheme |-> scheme, hasNet |-> hasNet, netloc |-> netloc,
     path |-> BeforeFirst(r, {"?"}), query |-> AfterFirst(r, {"?"}),
     fragment |-> frag]

\* urlsplit(), the fragment: what follows the first "#".
SplitFragment(scheme, hasNet, netloc, r) ==
    SplitQuery(scheme, hasNet, netloc, BeforeFirst(r, {"#"}), AfterFirst(r, {"#"}))

\* urlsplit(), the authority: after "//", up to the first "/", "?" or "#".
SplitAuthority(scheme, r) ==
    IF r # <<>> /\ r[1] = "//"
    THEN SplitFragment(scheme, TRUE, BeforeFirst(Tail(r), {"/", "?", "#"}),
                       FromFirst(Tail(r), {"/", "?", "#"}))
    ELSE SplitFragment(scheme, FALSE, <<>>, r)

\* urlsplit(): scheme, netloc, path, query, fragment.
UrlSplit(s) ==
    IF s # <<>> /\ s[1] \in SchemeTokens
    THEN SplitAuthority(s[1], Tail(s))
    ELSE SplitAuthority("", s)

\* urlunsplit(): the components put together again; an empty query or
\* fragment leaves no "?" or "#".
UrlUnsplit(u) ==
    (IF u.scheme = "" THEN <<>> ELSE <<u.scheme>>)
    \o (IF u.hasNet THEN <<"//">> \o u.netloc ELSE <<>>)
    \o u.path
    \o (IF u.query = <<>> THEN <<>> ELSE <<"?">> \o u.query)
    \o (IF u.fragment = <<>> THEN <<>> ELSE <<"#">> \o u.fragment)

\* Runs of "/" collapsed to one "/": urljoin drops the empty middle segments
\* of a merged relative path.
RECURSIVE SquashSlashes(_)
SquashSlashes(p) ==
    IF Len(p) < 2 THEN p
    ELSE IF p[1] = "/" /\ p[2] = "/" THEN SquashSlashes(Tail(p))
    ELSE <<p[1]>> \o SquashSlashes(Tail(p))

\* The base path up to and with its last "/".
BaseDir(bpath) ==
    IF bpath = <<>> THEN <<"/">> ELSE SubSeq(bpath, 1, LastIn(bpath, {"/"}))

\* urljoin() on the components b of the base and u of a non-empty url.
JoinParts(b, u) ==
    IF u.scheme # "" /\ u.scheme # b.scheme THEN u
    ELSE IF u.hasNet /\ u.netloc # <<>>
         THEN [u EXCEPT !.scheme = b.scheme]
    ELSE IF u.path = <<>>
         THEN [scheme |-> b.scheme, hasNet |-> TRUE, netloc |-> b.netloc,
               path |-> b.path,
               query |-> IF u.query = <<>> THEN b.query ELSE u.query,
               fragment |-> u.fragment]
    ELSE [scheme |-> b.scheme, hasNet |-> TRUE, netloc |-> b.netloc,
          path |-> IF u.path[1] = "/" THEN u.path
                   ELSE SquashSlashes(BaseDir(b.path) \o u.path),
          query |-> u.query, fragment |-> u.fragment]

UrlJoin(base, url) == UrlUnsplit(JoinParts(UrlSplit(base), UrlSplit(url)))

DotTokens == {".png", ".css", ".js", ".com", ".tar", ".gz"}

\* os.path.splitext(path)[1]: from the last dot of the last segment to the
\* end, empty when the segment has no dot or only a leading one.
LastSegment(path) == SubSeq(path, LastIn(path, {"/"}) + 1, Len(path))

ExtFrom(seg, d) == IF d > 1 THEN SubSeq(seg, d, Len(seg)) ELSE <<>>

SplitExt(path) == ExtFrom(LastSegment(path), LastIn(LastSegment(path), DotTokens))

----------------------------------------------------------------------------
(* Configuration and the inputs of the model. *)

BASE_URL == "https://mirror.test"
ASSET_DIR_NAME == "assets"
HTTP_OK == 200

\* requests.get raising a transport exception instead of returning a response.
NoResponse == 0

\* What requests.get does for one request: a response with a status, or a
\* transport exception.
Responses == {200, 404, NoResponse}

\* The target page's URL, the base every locator is resolved against.
TargetUrls ==
    { <<"https:", "//", "site", ".com", "/", "dir", "/", "page">>,
      <<"https:", "//", "site", ".com", "/", "dir", "/", "page", "?", "lang=en">> }

LocEmpty     == <<>>
LocData      == <<"data:", "image/png;base64", ",", "AAAA">>
LocAbs       == <<"https:", "//", "a", ".com", "/", "a", ".png">>
LocAbsQuery  == <<"https:", "//", "a", ".com", "/", "a", ".png", "?", "v=3">>
LocHttp      == <<"http:", "//", "a", ".com", "/", "a", ".png">>
LocRoot      == <<"/", "a", ".png", "?", "v=1">>
LocSpace     == <<"a", "%20", "b", ".png">>
LocCdn       == <<"//", "cdn", ".com", "/", "lib", ".js">>
LocEncQuery  == <<"/", "a", "%3F", "v=2">>
LocEncAmp    == <<"a", ".png", "?", "x=", "%26">>
LocFragment  == <<"#", "top">>
LocTarGz     == <<"/", "pkg", ".tar", ".gz">>
LocEncComma  == <<"a", "%2C", "b", ".css">>

Locators ==
    { LocEmpty, LocData, LocAbs, LocAbsQuery, LocHttp, LocRoot, LocSpace, LocCdn,
      LocEncQuery, LocEncAmp, LocFragment, LocTarGz, LocEncComma }

\* hashlib.md5(path.encode()).hexdigest()[:10], tabulated for the paths the
\* inputs of the model resolve to.
Md5Of(p) ==
        CASE p = "/1.png"       -> "e0bd866067"
          [] p = "/2.png"       -> "e43058cb90"
          [] p = "/a"           -> "0639767f3e"
          [] p = "/a.png"       -> "8383dc4090"
          [] p = "/dir/AAAA"    -> "bea5bdcf9f"
          [] p = "/dir/a b.png" -> "172ece63fa"
          [] p = "/dir/a,b.css" -> "cc41ec0d20"
          [] p = "/dir/a.png"   -> "4387d578f6"
          [] p = "/dir/page"    -> "772de40dfd"
          [] p = "/lib.js"      -> "7ef0b98d45"
          [] p = "/local.png"   -> "d2bbc35850"
          [] p = "/pkg.tar.gz"  -> "6f66795494"

Md5Hex10(path) == Md5Of(Join(path))

----------------------------------------------------------------------------
(* download_and_replace_asset *)

\* The extension of the file name: the path's, ".bin" when it has none.
Extension(ext) == IF ext = <<>> THEN ".bin" ELSE Join(ext)

\* The cached file's name: the hash of the path and the extension.
Filename(path) == Md5Hex10(path) \o Extension(SplitExt(path))

\* A slip: the empty locator not passed through.
PassthroughDataOnly(loc) == loc # <<>> /\ loc[1] = "data:"

Passthrough(loc) == loc = <<>> \/ loc[1] = "data:"

\* The absolute URL a locator is fetched from (lines 91-92).
FullUrl(loc, base) == UrlJoin(base, Unquote(loc))

\* The local reference: BASE_URL, the asset directory, the file name and the
\* parsed URL's query (lines 119-121).
LocalReference(file, query) ==
    <<BASE_URL, "/", ASSET_DIR_NAME, "/", file>>
    \o (IF query = <<>> THEN <<>> ELSE <<"?">> \o query)

\* What a failed download returns: asset_url, which line 91 has rebound to
\* the unquoted locator.
FailedResult(loc) == Unquote(loc)

\* A slip: the existence check dropped, every call downloads.
CacheHitNever(store, file) == FALSE

\* Whether the cached file makes the download unnecessary (line 108).
CacheHit(store, file) == file \in DOMAIN store

\* The record of a call: where it was made, its locator and base, how it
\* went ("pass", "hit", "fetched", "failed", "raised"), the cache file, whether
\* the file existed when the call was made, whether the call issued a fetch,
\* and what it returned.
Call(site, loc, base, kind, file, existed, fetched, out) ==
    [site |-> site, loc |-> loc, base |-> base, kind |-> kind, file |-> file,
     existed |-> existed, fetched |-> fetched, out |-> out]

Record(S, call) == [S EXCEPT !.calls = Append(@, call)]

\* The request of line 109 issued and answered.
Requested(S, full) ==
    [S EXCEPT !.resp = Tail(@),
              !.requests = Append(@, [url |-> full, status |-> Head(S.resp)])]

\* Lines 109-116, after the request: S1 is the state with the request made,
\* rec the record of the call as a cache hit would leave it.
Answered(S1, loc, full, rec, status) ==
    IF status = NoResponse
    THEN Record([S1 EXCEPT !.raised = TRUE],
                [rec EXCEPT !.kind = "raised", !.fetched = TRUE, !.out = <<>>])
    ELSE IF status = HTTP_OK
    THEN Record([S1 EXCEPT !.store = (rec.file :> Join(full)) @@ @],
                [rec EXCEPT !.kind = "fetched", !.fetched = TRUE])
    ELSE Record(S1, [rec EXCEPT !.kind = "failed", !.fetched = TRUE,
                                !.out = FailedResult(loc)])

\* Lines 108-121.
Download(S, loc, full, rec) ==
    IF CacheHit(S.store, rec.file) THEN Record(S, rec)
    ELSE Answered(Requested(S, full), loc, full, rec, Head(S.resp))

\* A slip: the query made part of the file name.
PlannedKeyedByQuery(S, site, loc, base, file, query) ==
    Call(site, loc, base, "hit", file \o Join(query),
         (file \o Join(query)) \in DOMAIN S.store, FALSE,
         LocalReference(file \o Join(query), query))

\* Lines 100-106 and 119-121: the file name and the local reference.
Planned(S, site, loc, base, file, query) ==
    Call(site, loc, base, "hit", file, file \in DOMAIN S.store, FALSE,
         LocalReference(file, query))

\* Lines 95-121, from the parsed URL on.
Parsed(S, site, loc, base, full, parsed) ==
    Download(S, loc, full, Planned(S, site, loc, base, Filename(parsed.path), parsed.query))

\* One call of download_and_replace_asset, threaded through the run state
\* S = [store, requests, calls, resp, raised]: resp holds the transport's
\* answers to the fetches still to come, raised says that an exception is
\* propagating (every later call is skipped).
Resolve(S, loc, base, site) ==
    IF S.raised THEN S
    ELSE IF Passthrough(loc)
    THEN Record(S, Call(site, loc, base, "pass", "", FALSE, FALSE, loc))
    ELSE Parsed(S, site, loc, base, FullUrl(loc, base), UrlSplit(FullUrl(loc, base)))

\* The value the last call returned.
Returned(S) == S.calls[Len(S.calls)].out

----------------------------------------------------------------------------
(* process_style_attribute *)

\* The indices at which a match of url\("(.*?)"\) that starts at token i may
\* end (the index of its closing quote): a quote followed by a parenthesis,
\* with no line break before it ("." matches none).
MatchEnds(s, i) ==
    { j \in (i + 2)..(Len(s) - 1) :
        /\ s[j] = "\"" /\ s[j + 1] = ")"
        /\ \A k \in (i + 2)..(j - 1) : s[k] # "\n" }

Least(N) == IF N = {} THEN 0 ELSE CHOOSE j \in N : \A k \in N : j <= k

\* Where the match that starts at token i ends, 0 when none starts there:
\* the lazy (.*?) takes the nearest end.
MatchEnd(s, i) ==
    IF i + 1 <= Len(s) /\ s[i] = "url(" /\ s[i + 1] = "\""
    THEN Least(MatchEnds(s, i)) ELSE 0

\* A slip: the protocol-relative prefix forgotten.
RemotePrefixNoProtocolRelative(inner) ==
    \/ StartsWith(inner, <<"http:", "//">>)
    \/ StartsWith(inner, <<"https:", "//">>)

\* url.startswith(("http://", "https://", "//"))
RemotePrefix(inner) ==
    \/ StartsWith(inner, <<"http:", "//">>)
    \/ StartsWith(inner, <<"https:", "//">>)
    \/ StartsWith(inner, <<"//">>)

\* re.sub over the style text from token i on, with replace_url applied to
\* every match; acc is the text produced so far.  StyleAt handles the match
\* from i to j, StyleResolved the text after a resolved match.
RECURSIVE StyleFrom(_, _, _, _, _, _)
RECURSIVE StyleAt(_, _, _, _, _, _, _)
RECURSIVE StyleResolved(_, _, _, _, _, _)

StyleResolved(S1, s, j, acc, base, site) ==
    StyleFrom(S1, s, j + 2,
              IF S1.raised THEN acc
              ELSE acc \o <<"url(", "\"">> \o Returned(S1) \o <<"\"", ")">>,
              base, site)

StyleAt(S, s, i, j, acc, base, site) ==
    IF j = 0 THEN StyleFrom(S, s, i + 1, Append(acc, s[i]), base, site)
    ELSE IF RemotePrefix(SubSeq(s, i + 2, j - 1))
    THEN StyleResolved(Resolve(S, SubSeq(s, i + 2, j - 1), base, site),
                       s, j, acc, base, site)
    ELSE StyleFrom(S, s, j + 2, acc \o SubSeq(s, i, j + 1), base, site)

StyleFrom(S, s, i, acc, base, site) ==
    IF i > Len(s) THEN [S |-> S, out |-> acc]
    ELSE StyleAt(S, s, i, MatchEnd(s, i), acc, base, site)

process_style_attribute(S, style, base, site) == StyleFrom(S, style, 1, <<>>, base, site)

----------------------------------------------------------------------------
(* The document: the elements in document order, each with its tag name,   *)
(* its nesting depth, its attributes in source order and its text as code  *)
(* points.  html.parser gives tag and attribute names in lower case.       *)

HasAttr(tag, n) == \E k \in 1..Len(tag.attrs) : tag.attrs[k].name = n

AttrValue(tag, n) ==
    tag.attrs[CHOOSE k \in 1..Len(tag.attrs) : tag.attrs[k].name = n].value

SetAttr(tag, n, v) ==
    [tag EXCEPT !.attrs = [k \in 1..Len(tag.attrs) |->
                              IF tag.attrs[k].name = n
                              THEN [name |-> n, value |-> v] ELSE tag.attrs[k]]]

\* del tag[n]
DelAttr(tag, n) ==
    [tag EXCEPT !.attrs = SelectSeq(tag.attrs, LAMBDA a : a.name # n)]

\* attr.lower().endswith("url") and attr.lower().endswith("urls"), for the
\* attribute names of the model.
EndsWithUrl(n)  == n \in {"data-url", "url"}
EndsWithUrls(n) == n \in {"data-urls", "urls"}

MediaTags == {"img", "script", "source"}

\* The pieces a list value is cut into (line 57).
Pieces(value) == SplitComma(value)

\* The pieces of a list value resolved one after the other (lines 57-61).
RECURSIVE ResolvePieces(_, _, _, _, _)
RECURSIVE PieceResolved(_, _, _, _, _)

PieceResolved(S1, rest, acc, base, site) ==
    ResolvePieces(S1, rest, IF S1.raised THEN acc ELSE Append(acc, Returned(S1)),
                  base, site)

ResolvePieces(S, pieces, acc, base, site) ==
    IF pieces = <<>> THEN [S |-> S, out |-> acc]
    ELSE PieceResolved(Resolve(S, Strip(Head(pieces)), base, site),
                       Tail(pieces), acc, base, site)

\* The tag with attribute n set to what the last call returned, unless the
\* call raised.
Assigned(S1, tag, n) == IF S1.raised THEN tag ELSE SetAttr(tag, n, Returned(S1))

\* Line 62: the attribute set to the resolved pieces, joined.
AssignedList(r, tag, n) ==
    [S |-> r.S, tag |-> IF r.S.raised THEN tag ELSE SetAttr(tag, n, JoinComma(r.out))]

\* The loop over the attributes (lines 51-62), from attribute k on; i is the
\* element's index.
RECURSIVE AttrLoop(_, _, _, _, _)
RECURSIVE AttrNext(_, _, _, _)
RECURSIVE AttrOne(_, _, _, _, _)

AttrNext(r, k, base, i) == AttrLoop(r.S, r.tag, k + 1, base, i)

AttrOne(S, tag, a, base, i) ==
    IF EndsWithUrl(a.name)
    THEN [S |-> Resolve(S, a.value, base, <<i, a.name>>),
          tag |-> Assigned(Resolve(S, a.value, base, <<i, a.name>>), tag, a.name)]
    ELSE IF EndsWithUrls(a.name)
    THEN AssignedList(ResolvePieces(S, Pieces(a.value), <<>>, base, <<i, a.name>>),
                      tag, a.name)
    ELSE [S |-> S, tag |-> tag]

AttrLoop(S, tag, k, base, i) ==
    IF k > Len(tag.attrs) \/ S.raised THEN [S |-> S, tag |-> tag]
    ELSE AttrNext(AttrOne(S, tag, tag.attrs[k], base, i), k, base, i)

\* A slip: source left out of the media tags.
FixedAttrNoSource(tag) ==
    IF tag.name \in {"img", "script"} /\ HasAttr(tag, "src") THEN "src"
    ELSE IF tag.name = "link" /\ HasAttr(tag, "href") THEN "href"
    ELSE ""

\* Which fixed attribute of the element is resolved (lines 65-70): src of a
\* media tag, href of a link, "" for none.
FixedAttr(tag) ==
    IF tag.name \in MediaTags /\ HasAttr(tag, "src") THEN "src"
    ELSE IF tag.name = "link" /\ HasAttr(tag, "href") THEN "href"
    ELSE ""

\* Lines 42-45.
StripIntegrity(tag) == DelAttr(DelAttr(tag, "integrity"), "crossorigin")

\* Lines 48-49.
StyleAssigned(r, tag) ==
    [S |-> r.S, tag |-> IF r.S.raised THEN tag ELSE SetAttr(tag, "style", r.out)]

StyleStep(S, tag, base, i) ==
    IF HasAttr(tag, "style")
    THEN StyleAssigned(process_style_attribute(S, AttrValue(tag, "style"), base,
                                               <<i, "style">>), tag)
    ELSE [S |-> S, tag |-> tag]

\* Lines 65-70.
FixedResolved(S1, tag, fx) == [S |-> S1, tag |-> Assigned(S1, tag, fx)]

FixedStep(r, fx, base, i) ==
    IF fx = "" \/ r.S.raised THEN r
    ELSE FixedResolved(Resolve(r.S, AttrValue(r.tag, fx), base, <<i, fx>>), r.tag, fx)

FixedOf(r, base, i) == FixedStep(r, FixedAttr(r.tag), base, i)

AttrsOf(r, base, i) == AttrLoop(r.S, r.tag, 1, base, i)

\* The body of the loop over the elements (lines 42-70) for element i.
ProcessTag(S, tag, base, i) ==
    FixedOf(AttrsOf(StyleStep(S, StripIntegrity(tag), base, i), base, i), base, i)

I18N_ID == <<"i18nWebflowScript">>

RECURSIVE DropIndices(_, _, _)
DropIndices(tags, n, Drop) ==
    IF n > Len(tags) THEN <<>>
    ELSE (IF n \in Drop THEN <<>> ELSE <<tags[n]>>) \o DropIndices(tags, n + 1, Drop)

\* The first index in Hits with the elements nested below it.
WithDescendants(tags, k) ==
    { m \in k..Len(tags) : \A n \in (k + 1)..m : tags[n].depth > tags[k].depth }

\* soup.find(id=...) and decompose(): the first element with the id is
\* removed with its descendants (lines 37-39).
I18nHits(tags) ==
    { k \in 1..Len(tags) : HasAttr(tags[k], "id") /\ AttrValue(tags[k], "id") = I18N_ID }

RemoveI18n(tags) ==
    IF I18nHits(tags) = {} THEN tags
    ELSE DropIndices(tags, 1, WithDescendants(tags, Least(I18nHits(tags))))

\* Whether the text encodes in ISO-8859-1 (line 72): every code point is
\* below 256.
Latin1 == 256
Encodable(tags) ==
    \A k \in 1..Len(tags) : \A c \in 1..Len(tags[k].text) : tags[k].text[c] < Latin1

----------------------------------------------------------------------------
(* The pages the model serves. *)

Tag(n, d, as, tx) == [name |-> n, depth |-> d, attrs |-> as, text |-> tx]
Attr(n, v) == [name |-> n, value |-> v]

Loc1Png == <<"https:", "//", "a", ".com", "/", "1", ".png">>
Loc2Png == <<"https:", "//", "a", ".com", "/", "2", ".png">>

StyleRemote ==
    <<"background:", "url(", "\"">> \o LocAbsQuery \o <<"\"", ")", " ", "no-repeat">>

TagImg      == Tag("img", 0, <<Attr("src", LocAbs)>>, <<>>)
TagScript   == Tag("script", 0, <<Attr("src", LocCdn), Attr("integrity", <<"sha384-x">>),
                                  Attr("crossorigin", <<"anonymous">>)>>, <<>>)
TagLink     == Tag("link", 0, <<Attr("href", LocRoot)>>, <<>>)
TagSource   == Tag("source", 1, <<Attr("src", LocSpace)>>, <<>>)
TagStyled   == Tag("div", 0, <<Attr("style", StyleRemote)>>, <<>>)
TagList     == Tag("div", 0, <<Attr("data-urls", Loc1Png \o <<",", " ">> \o Loc2Png)>>, <<>>)
TagListData == Tag("div", 0, <<Attr("data-urls", LocData \o <<",">> \o LocEncComma)>>, <<>>)
TagDataUrl  == Tag("img", 0, <<Attr("data-url", LocEncAmp), Attr("src", LocAbsQuery)>>, <<>>)
TagI18n     == Tag("script", 0, <<Attr("id", I18N_ID), Attr("src", LocCdn)>>, <<>>)
TagAnchor   == Tag("a", 0, <<Attr("href", LocAbs)>>, <<>>)
TagInline   == Tag("img", 1, <<Attr("src", LocData)>>, <<>>)
TagEuro     == Tag("p", 0, <<>>, <<8364>>)
TagAccent   == Tag("p", 0, <<>>, <<233>>)

TagPool ==
    { TagImg, TagScript, TagLink, TagSource, TagStyled, TagList, TagListData,
      TagDataUrl, TagI18n, TagAnchor, TagInline, TagEuro, TagAccent }

MaxTags == 2

\* A page is a forest: the first element is a root and an element is at most
\* one level below the element before it.
WellNested(d) ==
    /\ d # <<>> => d[1].depth = 0
    /\ \A k \in 2..Len(d) : d[k].depth <= d[k - 1].depth + 1

SeqsUpTo(T, n) == UNION { [1..m -> T] : m \in 0..n }

Pages == { d \in SeqsUpTo(TagPool, MaxTags) : WellNested(d) }

\* The pages that exercise download_and_replace_asset: every element is an
\* image with one of the locators as its src, or a paragraph of text.
MaxCalls == 2

ResolveTags == { Tag("img", 0, <<Attr("src", l)>>, <<>>) : l \in Locators } \cup {TagEuro}

ResolvePages == SeqsUpTo(ResolveTags, MaxCalls)

\* The pages that exercise process_style_attribute: one element whose style
\* is made of at most MaxStylePieces of these fragments.
MaxStylePieces == 2

Quoted(loc) == <<"url(", "\"">> \o loc \o <<"\"", ")">>

StyleFragments ==
    { <<"background:">>,
      Quoted(LocAbsQuery),
      Quoted(LocCdn),
      Quoted(LocHttp),
      Quoted(<<"/", "local", ".png">>),
      Quoted(LocData),
      <<"url(", "'">> \o LocAbs \o <<"'", ")">>,
      <<"url(">> \o LocAbs \o <<")">>,
      <<"url(", "\"">>,
      <<"\"", ")">>,
      <<"\n">>,
      <<" ", "no-repeat">> }

RECURSIVE Flatten(_)
Flatten(ss) == IF ss = <<>> THEN <<>> ELSE Head(ss) \o Flatten(Tail(ss))

Styles == { Flatten(fs) : fs \in SeqsUpTo(StyleFragments, MaxStylePieces) }

StylePages ==
    { <<Tag("div", 0, <<Attr("style", s)>>, tx)>> : s \in Styles, tx \in {<<>>, <<8364>>} }

\* The files the asset store may hold before the run: none, or the file of
\* the path /a.png, left by an earlier run.
InitialStores == { <<>>, ("8383dc4090.png" :> "old") }

----------------------------------------------------------------------------
(* download_page *)

VARIABLES
    pc,        \* where download_page is: "start", "walk", "done", "failed"
    url,       \* the target URL
    served,    \* the elements of the page the server holds
    doc,       \* the parsed document (soup), rewritten in place
    cursor,    \* the index of the next element of the walk
    store,     \* the asset store: file name -> content
    requests,  \* the GET requests issued so far, with their outcomes
    calls,     \* the calls of download_and_replace_asset so far
    output,    \* the output markup file
    error      \* the exception that ended the run, "" for none

vars == <<pc, url, served, doc, cursor, store, requests, calls, output, error>>

NoOutput == [exists |-> FALSE, markup |-> <<>>]

\* The output file before the run: nothing removes it, so it is absent or
\* holds the markup an earlier run wrote (open() at line 72 is the only
\* statement that touches it).
OldOutput == [exists |-> TRUE, markup |-> <<Tag("p", 0, <<>>, <<111, 108, 100>>)>>]

InitialOutputs == {NoOutput, OldOutput}

InitWith(pages) ==
    /\ pc = "start"
    /\ url \in TargetUrls
    /\ served \in pages
    /\ doc = <<>>
    /\ cursor = 0
    /\ store \in InitialStores
    /\ requests = <<>>
    /\ calls = <<>>
    /\ output \in InitialOutputs
    /\ error = ""

Init == InitWith(Pages)

\* Lines 26-39: the page is fetched, whatever its status, parsed and the
\* i18n script removed.
FetchPage ==
    /\ pc = "start"
    /\ \E status \in Responses \ {NoResponse} :
         requests' = Append(requests, [url |-> url, status |-> status])
    /\ doc' = RemoveI18n(served)
    /\ cursor' = 1
    /\ pc' = "walk"
    /\ UNCHANGED <<url, served, store, calls, output, error>>

\* Line 26 raising: the exception leaves download_page.
FetchPageRaises ==
    /\ pc = "start"
    /\ requests' = Append(requests, [url |-> url, status |-> NoResponse])
    /\ pc' = "failed"
    /\ error' = "page fetch"
    /\ UNCHANGED <<url, served, doc, cursor, store, calls, output>>

RunState(resp) ==
    [store |-> store, requests |-> requests, calls |-> calls, resp |-> resp,
     raised |-> FALSE]

\* The most fetches the element at the cursor can need: those it issues when
\* every one of them is refused.
RECURSIVE Refusals(_)
Refusals(n) == IF n = 0 THEN <<>> ELSE <<404>> \o Refusals(n - 1)

RECURSIVE SumTo(_, _)
SumTo(f, k) == IF k = 0 THEN 0 ELSE f[k] + SumTo(f, k - 1)

Count(s, x) == Cardinality({ k \in 1..Len(s) : s[k] = x })

\* No element makes more calls than this: one for each attribute, comma and
\* "url(" it holds.
CallBound(tag) ==
    SumTo([ k \in 1..Len(tag.attrs) |->
              Count(tag.attrs[k].value, ",") + Count(tag.attrs[k].value, "url(") + 1 ],
          Len(tag.attrs))

FetchesNeeded(tag) ==
    Len(ProcessTag(RunState(Refusals(CallBound(tag))), tag, url, cursor).S.requests)
    - Len(requests)

\* Lines 42-70 for the element at the cursor; an exception of a fetch leaves
\* download_page.
ProcessElement ==
    /\ pc = "walk"
    /\ cursor <= Len(doc)
    /\ \E resp \in [1..FetchesNeeded(doc[cursor]) -> Responses] :
         LET r == ProcessTag(RunState(resp), doc[cursor], url, cursor)
         IN  /\ store' = r.S.store
             /\ requests' = r.S.requests
             /\ calls' = r.S.calls
             /\ IF r.S.raised
                THEN /\ pc' = "failed"
                     /\ error' = "asset fetch"
                     /\ UNCHANGED <<doc, cursor>>
                ELSE /\ doc' = [doc EXCEPT ![cursor] = r.tag]
                     /\ cursor' = cursor + 1
                     /\ UNCHANGED <<pc, error>>
    /\ UNCHANGED <<url, served, output>>

\* Lines 72-73 with markup that ISO-8859-1 encodes: the file is written.
WriteOutput ==
    /\ pc = "walk"
    /\ cursor > Len(doc)
    /\ Encodable(doc)
    /\ output' = [exists |-> TRUE, markup |-> doc]
    /\ pc' = "done"
    /\ UNCHANGED <<url, served, doc, cursor, store, requests, calls, error>>

\* Lines 72-73 with markup that ISO-8859-1 does not encode: open() has
\* created the file, write() raises before any byte reaches it.
WriteOutputFails ==
    /\ pc = "walk"
    /\ cursor > Len(doc)
    /\ ~Encodable(doc)
    /\ output' = [exists |-> TRUE, markup |-> <<>>]
    /\ pc' = "failed"
    /\ error' = "encode"
    /\ UNCHANGED <<url, served, doc, cursor, store, requests, calls>>

Next ==
    \/ FetchPage
    \/ FetchPageRaises
    \/ ProcessElement
    \/ WriteOutput
    \/ WriteOutputFails

Spec == Init /\ [][Next]_vars

\* The same program on the pages that exercise one function.
InitResolve == InitWith(ResolvePages)
SpecResolve == InitResolve /\ [][Next]_vars

InitStyle == InitWith(StylePages)
SpecStyle == InitStyle /\ [][Next]_vars

----------------------------------------------------------------------------
(* Properties. *)

\* The parsed document before the walk.
Source == RemoveI18n(served)

\* The calls made at a site, in order, and what they returned.
CallsAt(site) == SelectSeq(calls, LAMBDA c : c.site = site)
Outs(cs) == [k \in 1..Len(cs) |-> cs[k].out]

\* The path of the absolute URL a call's locator resolves to.
ResolvedPath(c) == UrlSplit(FullUrl(c.loc, c.base)).path

SamePath(c, d) ==
    c.kind # "pass" /\ d.kind # "pass" /\ ResolvedPath(c) = ResolvedPath(d)

\* The query string of the locator as written, before unquoting and joining.
OwnQuery(loc) == UrlSplit(loc).query

\* C1, as claimed: any two calls whose locators resolve to the same path
\* derive the same file name, and at most one of the two issues a fetch.
C1_AtMostOneFetch ==
    \A j, k \in 1..Len(calls) :
        (j < k /\ SamePath(calls[j], calls[k])) =>
            /\ calls[j].file = calls[k].file
            /\ ~(calls[j].fetched /\ calls[k].fetched)

\* C1, amended: any two calls whose locators resolve to the same path derive
\* the same file name; at most one of them downloads the file, and once the
\* file exists (a hit or a download) the later call issues no fetch.  Only a
\* call whose fetch was refused leaves the later call to fetch again.
C1_AtMostOneDownload ==
    \A j, k \in 1..Len(calls) :
        (j < k /\ SamePath(calls[j], calls[k])) =>
            /\ calls[j].file = calls[k].file
            /\ ~(calls[j].kind = "fetched" /\ calls[k].kind = "fetched")
            /\ calls[j].kind \in {"hit", "fetched"} => ~calls[k].fetched
            /\ calls[k].fetched => calls[j].kind = "failed"

\* Two locators with the same path and different queries: the first is
\* downloaded, the second served from the cache.
C1_Witness ==
    \E j, k \in 1..Len(calls) :
        /\ j < k /\ SamePath(calls[j], calls[k])
        /\ OwnQuery(calls[j].loc) # OwnQuery(calls[k].loc)
        /\ calls[j].kind = "fetched" /\ calls[k].kind = "hit"

\* C2, as claimed: a call whose fetch returns a status other than 200
\* returns the locator exactly as passed in, and leaves no file for its key.
C2_FailureReturnsLocator ==
    \A k \in 1..Len(calls) :
        calls[k].kind = "failed" =>
            /\ calls[k].out = calls[k].loc
            /\ k = Len(calls) => calls[k].file \notin DOMAIN store

\* C3, as claimed: no failure of an asset fetch, a refusal or a transport
\* exception, ends the run.
C3_AssetFailureNeverAborts ==
    pc = "failed" => error # "asset fetch"

\* C4: a file of the store is never changed or removed; a call that finds
\* its file in the store issues no fetch; no file is downloaded twice.
C4_NeverRefetchedOrOverwritten ==
    [][ /\ \A f \in DOMAIN store : f \in DOMAIN store' /\ store'[f] = store[f]
        /\ \A k \in 1..Len(calls') : calls'[k].existed => ~calls'[k].fetched
        /\ \A j, k \in 1..Len(calls') :
              (j < k /\ calls'[j].kind = "fetched" /\ calls'[k].kind = "fetched")
                  => calls'[j].file # calls'[k].file ]_vars

\* A file downloaded from one URL is found by a later call whose locator
\* resolves to another URL with the same key.
C4_Witness ==
    \E j, k \in 1..Len(calls) :
        /\ j < k
        /\ calls[j].kind = "fetched" /\ calls[k].kind = "hit"
        /\ calls[j].file = calls[k].file
        /\ FullUrl(calls[j].loc, calls[j].base) # FullUrl(calls[k].loc, calls[k].base)
        /\ store[calls[k].file] = Join(FullUrl(calls[j].loc, calls[j].base))

\* C5, as claimed: a call that succeeds returns BASE_URL, "/", the asset
\* directory, "/", the file name, and the locator's own query string.
C5_OwnQueryReappended ==
    \A k \in 1..Len(calls) :
        calls[k].kind \in {"hit", "fetched"} =>
            calls[k].out =
                <<BASE_URL, "/", ASSET_DIR_NAME, "/", calls[k].file>>
                \o (IF OwnQuery(calls[k].loc) = <<>> THEN <<>>
                    ELSE <<"?">> \o OwnQuery(calls[k].loc))

\* C6, as claimed: a run that ends in a failure leaves no output file.  The
\* code breaks it when the write itself fails (the file open() created or
\* truncated stays, empty), and a failed fetch leaves an earlier run's file
\* where it was.
C6_NoOutputAfterFailure ==
    pc = "failed" => ~output.exists

Inert(loc) == loc = <<>> \/ loc[1] = "data:"

\* C7: a call with an empty or data: locator returns the locator, issues no
\* fetch and leaves the store and the requests as they were.
C7_InertLocatorUntouched ==
    [][ \A k \in (Len(calls) + 1)..Len(calls') :
            Inert(calls'[k].loc) =>
                /\ calls'[k].out = calls'[k].loc
                /\ ~calls'[k].fetched
                /\ Len(calls') = Len(calls) + 1 =>
                       store' = store /\ requests' = requests ]_vars

\* A data: locator and an empty locator passed through with a file in the
\* store.
C7_Witness ==
    /\ store # <<>>
    /\ \E j, k \in 1..Len(calls) :
          /\ calls[j].loc = LocData /\ calls[j].out = LocData
          /\ calls[k].loc = <<>> /\ calls[k].out = <<>>

IsListName(n) == n \in {"data-urls", "urls"}

RECURSIVE CommaSpaceJoined(_)
CommaSpaceJoined(ps) ==
    IF ps = <<>> THEN <<>>
    ELSE ps[1] \o (IF Len(ps) = 1 THEN <<>> ELSE <<",", " ">> \o CommaSpaceJoined(Tail(ps)))

Trimmed(ps) == [m \in 1..Len(ps) |-> Strip(ps[m])]

\* C8: for every element walked and every attribute of it whose name ends in
\* "urls", one call is made for each comma-separated piece of the value, in
\* order, with the piece trimmed; each call that is not passed through uses
\* the file of its own piece; and the attribute holds what the calls
\* returned, joined with ", ".
C8_ListAttribute ==
    \A i \in 1..(cursor - 1) : \A a \in 1..Len(Source[i].attrs) :
        IsListName(Source[i].attrs[a].name) =>
            LET n  == Source[i].attrs[a].name
                ps == Trimmed(SplitComma(Source[i].attrs[a].value))
                cs == CallsAt(<<i, n>>)
            IN  /\ Len(cs) = Len(ps)
                /\ \A m \in 1..Len(cs) :
                      /\ cs[m].loc = ps[m]
                      /\ cs[m].kind # "pass" =>
                             cs[m].file = Filename(ResolvedPath(cs[m]))
                /\ AttrValue(doc[i], n) = CommaSpaceJoined(Outs(cs))

\* A list of two pieces, the first downloaded and the second refused, in the
\* output.
C8_Witness ==
    /\ pc = "done"
    /\ \E i \in 1..Len(doc) :
          /\ Source[i] = TagList
          /\ CallsAt(<<i, "data-urls">>)[1].kind = "fetched"
          /\ CallsAt(<<i, "data-urls">>)[2].kind = "failed"
          /\ CallsAt(<<i, "data-urls">>)[1].file # CallsAt(<<i, "data-urls">>)[2].file

\* The text cut into the matches of url\("(.*?)"\) and the tokens between
\* them.
Closings(s, i) ==
    { j \in (i + 2)..(Len(s) - 1) :
        /\ s[j] = "\"" /\ s[j + 1] = ")"
        /\ \A k \in (i + 2)..(j - 1) : s[k] # "\n" }

Opens(s, i) == i < Len(s) /\ s[i] = "url(" /\ s[i + 1] = "\"" /\ Closings(s, i) # {}

Closing(s, i) == CHOOSE j \in Closings(s, i) : \A k \in Closings(s, i) : j <= k

RECURSIVE Scan(_, _)
Scan(s, i) ==
    IF i > Len(s) THEN <<>>
    ELSE IF Opens(s, i)
    THEN <<[from |-> i, to |-> Closing(s, i) + 1, match |-> TRUE]>>
         \o Scan(s, Closing(s, i) + 2)
    ELSE <<[from |-> i, to |-> i, match |-> FALSE]>> \o Scan(s, i + 1)

Inner(s, g) == SubSeq(s, g.from + 2, g.to - 2)

IsRemote(inner) ==
    /\ inner # <<>>
    /\ \/ inner[1] = "//"
       \/ inner[1] \in {"http:", "https:"} /\ Len(inner) >= 2 /\ inner[2] = "//"

RemoteMatches(s) == SelectSeq(Scan(s, 1), LAMBDA g : g.match /\ IsRemote(Inner(s, g)))

\* The text with every remote match replaced by url("<the next of outs>").
RECURSIVE Rebuilt(_, _, _)
Rebuilt(s, segs, outs) ==
    IF segs = <<>> THEN <<>>
    ELSE IF Head(segs).match /\ IsRemote(Inner(s, Head(segs)))
    THEN <<"url(", "\"">> \o Head(outs) \o <<"\"", ")">> \o Rebuilt(s, Tail(segs), Tail(outs))
    ELSE SubSeq(s, Head(segs).from, Head(segs).to) \o Rebuilt(s, Tail(segs), outs)

\* C9: the style of an element walked is its text with every match whose
\* inner value starts with http://, https:// or // replaced by url("...")
\* around what resolve returned for the inner value, and everything else as
\* it was; resolve is called for those matches only, and the only fetches
\* are those of these calls.
C9_StyleRewrite ==
    \A i \in 1..(cursor - 1) :
        HasAttr(Source[i], "style") =>
            LET s  == AttrValue(Source[i], "style")
                cs == CallsAt(<<i, "style">>)
                rm == RemoteMatches(s)
            IN  /\ Len(cs) = Len(rm)
                /\ \A m \in 1..Len(cs) : cs[m].loc = Inner(s, rm[m])
                /\ AttrValue(doc[i], "style") = Rebuilt(s, Scan(s, 1), Outs(cs))
                /\ Len(calls) = Len(cs)
                /\ Len(requests) = 1 + Cardinality({ m \in 1..Len(cs) : cs[m].fetched })

\* A style with a remote match that was replaced and a match that is not
\* remote and stayed.
C9_Witness ==
    /\ cursor = 2
    /\ HasAttr(Source[1], "style")
    /\ Len(RemoteMatches(AttrValue(Source[1], "style"))) = 1
    /\ \E g \in 1..Len(Scan(AttrValue(Source[1], "style"), 1)) :
          LET seg == Scan(AttrValue(Source[1], "style"), 1)[g]
          IN  seg.match /\ ~IsRemote(Inner(AttrValue(Source[1], "style"), seg))
    /\ CallsAt(<<1, "style">>)[1].kind = "fetched"
    /\ AttrValue(doc[1], "style") # AttrValue(Source[1], "style")

\* The attribute the walk resolves on its own: src of img, script and source,
\* href of link.
OwnAttr(tag) ==
    IF tag.name \in {"img", "script", "source"} THEN "src"
    ELSE IF tag.name = "link" THEN "href"
    ELSE ""

\* C10: for every element walked that is an img, script or source with a src,
\* or a link with an href, exactly one call is made for that attribute, with
\* the attribute's original value, and the attribute holds what it returned.
C10_SrcAndHref ==
    \A i \in 1..(cursor - 1) :
        (OwnAttr(Source[i]) # "" /\ HasAttr(Source[i], OwnAttr(Source[i]))) =>
            LET n  == OwnAttr(Source[i])
                cs == CallsAt(<<i, n>>)
            IN  /\ Len(cs) = 1
                /\ cs[1].loc = AttrValue(Source[i], n)
                /\ AttrValue(doc[i], n) = cs[1].out

\* A source element whose src was downloaded and a link whose href was served
\* from the cache, in the output.
C10_Witness ==
    /\ pc = "done"
    /\ \E i, j \in 1..Len(doc) :
          /\ doc[i].name = "source" /\ CallsAt(<<i, "src">>)[1].kind = "fetched"
          /\ doc[j].name = "link" /\ CallsAt(<<j, "href">>)[1].kind = "hit"
          /\ AttrValue(doc[j], "href") # AttrValue(Source[j], "href")

====
